---- MODULE Spec2Model ----
(***************************************************************************)
(* Deployment lifecycle of the ECS control center backend:                 *)
(*   - the in-memory deployment ledger (services/deployment_history.py),   *)
(*   - the image freshness comparison (utils/ecr.py),                      *)
(*   - the deployment use cases (routes/deployments.py, routes/services.py,*)
(*     routes/task_definitions.py).                                        *)
(* Python dicts are functions whose DOMAIN is the set of keys present;     *)
(* strings that the code takes apart (image URIs, ids) are sequences of    *)
(* tokens; an ISO timestamp of clock value t is the 1-tuple <<t>>.         *)
(***************************************************************************)
EXTENDS Integers, Sequences, FiniteSets, TLC

VARIABLES
    deployment_history,   \* the module-level list of deployment_history.py
    now,                  \* the wall clock, in whole seconds
    last_call,            \* the last request handled and its response
    inserted,             \* history variable: every entry ever saved, oldest first
    ecs_services,         \* orchestrator: service -> its task definition and update count
    ecs_revisions,        \* orchestrator: family -> its registered revisions, oldest first
    ecr_images,           \* registry: repository -> the image details it lists
    threads,              \* request thread -> where it is in update_deployment_status
    log_session           \* the log-streaming session of routes/logs.py

ledger_vars == <<deployment_history, now, last_call, inserted>>
ecs_vars == <<ecs_services, ecs_revisions, ecr_images>>
vars == <<deployment_history, now, last_call, inserted,
          ecs_services, ecs_revisions, ecr_images, threads,
          log_session>>

----------------------------------------------------------------------------
(* Bounds of the model *)

MaxTime == 1          \* the clock runs from 0 to MaxTime
MaxLedger == 2        \* SpecLedger saves at most this many entries
MaxFill == 102        \* SpecFill saves at most this many entries
MaxUpdates == 2       \* Spec: update_service is accepted at most this many times
MaxRevisions == 3     \* Spec: a family gets at most this many revisions
MaxThreads == 2       \* SpecThreads: request threads that reconcile in parallel
MaxCandidates == 3    \* SpecResolve: a repository lists at most this many images
MaxBatches == 3       \* SpecLogs: the log stream has at most this many batches of events
MaxSaves == 8         \* SpecSave: the request threads save at most this many entries

----------------------------------------------------------------------------
(* Python values *)

None == <<>>

Get(d, k, default) == IF k \in DOMAIN d THEN d[k] ELSE default

Put(d, k, v) == [x \in (DOMAIN d) \cup {k} |-> IF x = k THEN v ELSE d[x]]

isoformat(t) == <<t>>

Min(a, b) == IF a < b THEN a ELSE b

deploy_id(t) == <<"deploy", "-", ToString(t)>>

----------------------------------------------------------------------------
(* services/deployment_history.py *)

HISTORY_LIMIT == 100

\* the id save_deployment_history assigns and returns
saved_id(data, t) == Get(data, "deployment_id", deploy_id(t))

history_entry_keeps_status(data, t) ==
    [deployment_id |-> Get(data, "deployment_id", deploy_id(t)),
     timestamp |-> isoformat(t),
     cluster |-> Get(data, "cluster", None),
     service |-> Get(data, "service", None),
     deployment_type |-> Get(data, "deployment_type", None),
     status |-> Get(data, "status", "IN_PROGRESS"),
     new_task_definition |-> Get(data, "new_task_definition", None),
     last_checked_at |-> None,
     next_refresh_at |-> isoformat(t)]

history_entry(data, t) ==
    [deployment_id |-> saved_id(data, t),
     timestamp |-> isoformat(t),
     cluster |-> Get(data, "cluster", None),
     service |-> Get(data, "service", None),
     deployment_type |-> Get(data, "deployment_type", None),
     status |-> "IN_PROGRESS",
     new_task_definition |-> Get(data, "new_task_definition", None),
     last_checked_at |-> None,
     next_refresh_at |-> isoformat(t)]

insert_and_trim_head(history, entry) ==
    LET h == <<entry>> \o history
    IN IF Len(h) > HISTORY_LIMIT THEN Tail(h) ELSE h

\* deployment_history.insert(0, entry); if len > 100: pop()
insert_and_trim(history, entry) ==
    LET h == <<entry>> \o history
    IN IF Len(h) > HISTORY_LIMIT THEN SubSeq(h, 1, Len(h) - 1) ELSE h

\* the three statements of save_deployment_history that touch the list, one
\* by one: insert(0, entry), len(...) > 100, pop()
inserted_at_head(history, entry) == <<entry>> \o history

over_limit(history) == Len(history) > HISTORY_LIMIT

popped_head(history) == Tail(history)

popped(history) == SubSeq(history, 1, Len(history) - 1)

save_deployment_history(history, data, t) ==
    insert_and_trim(history, history_entry(data, t))

\* next((d for d in deployment_history if d.get("deployment_id") == id), None),
\* as the index of the entry found, 0 for None
find_deployment(history, id) ==
    IF \E i \in 1..Len(history) : Get(history[i], "deployment_id", None) = id
    THEN CHOOSE i \in 1..Len(history) :
            /\ Get(history[i], "deployment_id", None) = id
            /\ \A j \in 1..(i - 1) : Get(history[j], "deployment_id", None) # id
    ELSE 0

\* the orchestrator's rollout states; "other" is any string the code does not
\* name, "absent" a PRIMARY deployment without rolloutState, "no_primary" a
\* response without a PRIMARY deployment
RolloutStates ==
    {"FAILED", "COMPLETED", "IN_PROGRESS", "PENDING", "STARTED", "other",
     "absent", "no_primary"}

infer_from_counts(running_count, desired_count, pending_count) ==
    IF running_count = 0 THEN "PENDING"
    ELSE IF running_count < desired_count \/ pending_count > 0 THEN "IN_PROGRESS"
    ELSE "COMPLETED"

status_of_poll_started_pending(obs) ==
    IF obs.rollout = "no_primary"
    THEN infer_from_counts(obs.running, obs.desired, obs.pending)
    ELSE IF obs.rollout = "FAILED" THEN "FAILED"
    ELSE IF obs.rollout = "COMPLETED" THEN "COMPLETED"
    ELSE IF obs.rollout \in {"IN_PROGRESS", "PENDING"} THEN "IN_PROGRESS"
    ELSE IF obs.rollout = "STARTED" THEN "PENDING"
    ELSE infer_from_counts(obs.running, obs.desired, obs.pending)

status_of_poll(obs) ==
    IF obs.rollout = "no_primary"
    THEN infer_from_counts(obs.running, obs.desired, obs.pending)
    ELSE IF obs.rollout = "FAILED" THEN "FAILED"
    ELSE IF obs.rollout = "COMPLETED" THEN "COMPLETED"
    ELSE IF obs.rollout \in {"IN_PROGRESS", "PENDING", "STARTED"} THEN "IN_PROGRESS"
    ELSE infer_from_counts(obs.running, obs.desired, obs.pending)

on_describe_error_unguarded(deployment, t) ==
    LET d1 == Put(Put(deployment, "status", "UNKNOWN"), "status_error", "error text")
    IN Put(Put(d1, "last_checked_at", isoformat(t)), "next_refresh_at", isoformat(t))

on_describe_error_no_stamp(deployment, t) ==
    IF deployment.status # "COMPLETED"
    THEN Put(Put(deployment, "status", "UNKNOWN"), "status_error", "error text")
    ELSE deployment

\* describe_services raised
on_describe_error(deployment, t) ==
    LET d1 == IF deployment.status # "COMPLETED"
              THEN Put(Put(deployment, "status", "UNKNOWN"),
                       "status_error", "error text")
              ELSE deployment
    IN Put(Put(d1, "last_checked_at", isoformat(t)), "next_refresh_at", isoformat(t))

on_service_missing_escalating(deployment, t) ==
    LET d1 == IF deployment.status = "UNKNOWN" THEN Put(deployment, "status", "FAILED")
              ELSE IF deployment.status \notin {"COMPLETED", "FAILED"}
              THEN Put(deployment, "status", "UNKNOWN")
              ELSE deployment
        d2 == Put(d1, "status_error", "Service not found")
    IN Put(Put(d2, "last_checked_at", isoformat(t)), "next_refresh_at", isoformat(t))

\* the response has no services
on_service_missing(deployment, t) ==
    LET d1 == IF deployment.status \notin {"COMPLETED", "FAILED"}
              THEN Put(deployment, "status", "UNKNOWN")
              ELSE deployment
        d2 == Put(d1, "status_error", "Service not found")
    IN Put(Put(d2, "last_checked_at", isoformat(t)), "next_refresh_at", isoformat(t))

\* the catch-all handler around the whole reconciliation
on_exception(deployment, t) ==
    LET d1 == IF deployment.status # "COMPLETED"
              THEN Put(deployment, "status", "UNKNOWN")
              ELSE deployment
        d2 == Put(d1, "status_error", "error text")
    IN Put(Put(d2, "last_checked_at", isoformat(t)), "next_refresh_at", isoformat(t))

on_poll_clears_always(deployment, obs, t) ==
    LET d1 == Put(deployment, "status", status_of_poll(obs))
    IN Put(Put(d1, "last_checked_at", isoformat(t)), "next_refresh_at", None)

\* the poll answered with the service (the copies of the three counts kept in
\* the entry are display data that no operation reads back; they are left out)
on_poll(deployment, obs, t) ==
    LET st == status_of_poll(obs)
        d1 == Put(deployment, "status", st)
        d3 == Put(d1, "last_checked_at", isoformat(t))
    IN Put(d3, "next_refresh_at",
           IF st \in {"IN_PROGRESS", "PENDING", "UNKNOWN"} THEN isoformat(t) ELSE None)

reconciled(deployment, outcome, t) ==
    IF outcome.kind = "raise" THEN on_describe_error(deployment, t)
    ELSE IF outcome.kind = "missing" THEN on_service_missing(deployment, t)
    ELSE IF outcome.kind = "exception" THEN on_exception(deployment, t)
    ELSE on_poll(deployment, outcome, t)

update_deployment_status(history, id, outcome, t) ==
    LET i == find_deployment(history, id)
    IN IF i = 0 THEN history
       ELSE IF history[i].cluster = "" \/ history[i].service = "" THEN history
       ELSE [history EXCEPT ![i] = reconciled(history[i], outcome, t)]

----------------------------------------------------------------------------
(* Strings the code takes apart: sequences of tokens *)

MARKER == ".dkr.ecr."
SUFFIX == ".amazonaws.com/"
COLON == ":"

\* tok in s
Contains(s, tok) == \E i \in 1..Len(s) : s[i] = tok

\* s.split(sep)
Split(s, sep) ==
    LET P == {i \in 1..Len(s) : s[i] = sep}
        n == Cardinality(P)
        pos(k) == CHOOSE p \in P : Cardinality({q \in P : q < p}) = k - 1
        first(k) == IF k = 1 THEN 1 ELSE pos(k - 1) + 1
        last(k) == IF k = n + 1 THEN Len(s) ELSE pos(k) - 1
    IN [k \in 1..(n + 1) |-> SubSeq(s, first(k), last(k))]

\* s.split(":")[0] and s.split(":")[-1]
base_of(image_uri) == Split(image_uri, COLON)[1]
tag_of(image_uri) == Split(image_uri, COLON)[Len(Split(image_uri, COLON))]

\* f"{base_uri}:{tag}"
with_tag(base_uri, tag) == base_uri \o <<COLON, tag>>

----------------------------------------------------------------------------
(* utils/ecr.py *)

NoEcrInfo == [region |-> None, account |-> None, repo |-> None]

extract_ecr_info(image_uri) ==
    IF image_uri = <<>> \/ ~Contains(image_uri, MARKER) THEN NoEcrInfo
    ELSE IF Contains(image_uri, SUFFIX)
    THEN LET ecr_part == Split(image_uri, SUFFIX)[1]
             repo_and_tag == Split(image_uri, SUFFIX)[2]
         IN IF Contains(ecr_part, MARKER)
            THEN [region |-> Split(ecr_part, MARKER)[2],
                  account |-> Split(ecr_part, MARKER)[1],
                  repo |-> Split(repo_and_tag, COLON)[1]]
            ELSE NoEcrInfo
    ELSE NoEcrInfo

\* sorting by x.get("imagePushedAt", 0) compares a push time with the number 0
\* as soon as one entry has the key and another has not: TypeError
sort_raises(images_info) ==
    \E i, j \in 1..Len(images_info) :
        /\ "imagePushedAt" \in DOMAIN images_info[i]
        /\ "imagePushedAt" \notin DOMAIN images_info[j]

oldest_first(images_info) ==
    LET n == Len(images_info)
        key(i) == Get(images_info[i], "imagePushedAt", 0)
        rank(i) == 1 + Cardinality({j \in 1..n :
                        key(j) < key(i) \/ (key(j) = key(i) /\ j < i)})
    IN [r \in 1..n |-> images_info[CHOOSE i \in 1..n : rank(i) = r]]

\* sort(key=..., reverse=True): newest first, equal keys keep their order
newest_first(images_info) ==
    LET n == Len(images_info)
        key(i) == Get(images_info[i], "imagePushedAt", 0)
        rank(i) == 1 + Cardinality({j \in 1..n :
                        key(j) > key(i) \/ (key(j) = key(i) /\ j < i)})
    IN [r \in 1..n |-> images_info[CHOOSE i \in 1..n : rank(i) = r]]

\* img.get("imageDigest") where the code only asks whether the digest is
\* truthy: None and the empty string are both written ""
digest_of(img) == Get(img, "imageDigest", "")

current_digest_of_last(images_info) ==
    digest_of(images_info[Len(images_info)])

\* the fallback loop: the digest of the first entry whose imageTags contain
\* "latest" (the loop breaks there), "" when there is none
current_digest_of(images_info) ==
    IF \E i \in 1..Len(images_info) :
            Contains(Get(images_info[i], "imageTags", <<>>), "latest")
    THEN digest_of(images_info[
            CHOOSE i \in 1..Len(images_info) :
                /\ Contains(Get(images_info[i], "imageTags", <<>>), "latest")
                /\ \A j \in 1..(i - 1) :
                      ~Contains(Get(images_info[j], "imageTags", <<>>), "latest")])
    ELSE ""

images_after_sort_in_place(images_info) ==
    IF sort_raises(images_info) THEN images_info ELSE newest_first(images_info)

\* the caller's list after the call: sorted() builds a new list and binds it to
\* the local name, the list passed in is not touched
images_after(images_info) == images_info

comparison(has_updates, latest_image_uri) ==
    [has_updates |-> has_updates, latest_image_uri |-> latest_image_uri]

\* running_task_digest is "" when the caller passes None
unified_image_comparison(current_image_uri, images_info, running_task_digest) ==
    IF current_image_uri = <<>> \/ images_info = <<>>
    THEN comparison(FALSE, current_image_uri)
    ELSE
    LET sorted == IF sort_raises(images_info) THEN images_info
                  ELSE newest_first(images_info)
        base_uri == base_of(current_image_uri)
        current_tag == tag_of(current_image_uri)
    IN IF current_tag = <<"latest">>
       THEN LET latest_digest == digest_of(sorted[1])
                current_digest == current_digest_of(sorted)
            IN IF running_task_digest # ""
               THEN comparison(latest_digest # "" /\ running_task_digest # latest_digest,
                               with_tag(base_uri, "latest"))
               ELSE IF current_digest # "" /\ latest_digest # ""
               THEN comparison(current_digest # latest_digest,
                               with_tag(base_uri, "latest"))
               ELSE comparison(FALSE, with_tag(base_uri, "latest"))
       ELSE LET latest_tags == Get(sorted[1], "imageTags", <<>>)
            IN IF latest_tags # <<>>
               THEN comparison(current_image_uri # with_tag(base_uri, latest_tags[1]),
                               with_tag(base_uri, latest_tags[1]))
               ELSE comparison(FALSE, current_image_uri)

----------------------------------------------------------------------------
(* The collaborators: orchestrator (ECS) and registry (ECR) *)

\* a task definition ARN is <<family, revision>>
describe_task_definition(revisions, arn) == revisions[arn[1]][arn[2]]

\* register_task_definition(**register_args): the new revision list and its ARN
registered(revisions, register_args) ==
    [revisions EXCEPT ![register_args.family] = Append(@, register_args)]

registered_arn(revisions, register_args) ==
    <<register_args.family, Len(revisions[register_args.family]) + 1>>

\* update_service(taskDefinition=arn)
service_pointed_at(services, service, arn) ==
    [services EXCEPT ![service] = [taskDefinition |-> arn, updates |-> @.updates + 1]]

\* update_service(forceNewDeployment=True)
service_restarted(services, service) ==
    [services EXCEPT ![service].updates = @ + 1]

\* list_task_definitions(familyPrefix=family, status="ACTIVE", sort="DESC")
list_task_definitions(revisions, family) ==
    [i \in 1..Len(revisions[family]) |-> <<family, Len(revisions[family]) + 1 - i>>]

\* the fields of the current definition that are handed on to the new revision
\* (of the thirteen copied fields the model carries family, containers, cpu
\* and memory); fields that are None are dropped
register_args_of(td, container_defs) ==
    LET kept == {k \in {"cpu", "memory"} : k \in DOMAIN td}
    IN [k \in {"family", "containerDefinitions"} \cup kept |->
            IF k = "containerDefinitions" THEN container_defs ELSE td[k]]

----------------------------------------------------------------------------
(* routes/deployments.py: deploy_new_image; routes/services.py: force_new_deployment *)

\* what a handler leaves behind: the ledger, the orchestrator, the HTTP status
outcome_of(history, services, revisions, code, detail) ==
    [history |-> history, services |-> services, revisions |-> revisions,
     code |-> code, detail |-> detail]

use_case_id(prefix, cluster, service, t) ==
    prefix \o <<cluster, "-", service, "-", ToString(t)>>

has_latest_tag_first_only(container_defs) ==
    LET current_image_uri == Get(container_defs[1], "image", <<>>)
    IN /\ current_image_uri # <<>>
       /\ Contains(current_image_uri, MARKER)
       /\ tag_of(current_image_uri) = <<"latest">>

\* the loop that looks for a container with the tag latest
has_latest_tag(container_defs) ==
    \E i \in 1..Len(container_defs) :
        LET current_image_uri == Get(container_defs[i], "image", <<>>)
        IN /\ current_image_uri # <<>>
           /\ Contains(current_image_uri, MARKER)
           /\ tag_of(current_image_uri) = <<"latest">>

should_update(c, container_name) ==
    (container_name # "" /\ c.name = container_name) \/ container_name = ""

\* the image the newest pushed entry of the repository gives to current_image_uri;
\* any exception on the way leaves the image as it is
latest_versioned_image(current_image_uri, repo_name, ecr, ecr_fault) ==
    IF ecr_fault \/ repo_name \notin DOMAIN ecr THEN current_image_uri
    ELSE LET images_info == ecr[repo_name]
         IN IF images_info = <<>> \/ sort_raises(images_info) THEN current_image_uri
            ELSE LET latest_tags == Get(newest_first(images_info)[1], "imageTags", <<>>)
                 IN IF latest_tags # <<>>
                    THEN with_tag(base_of(current_image_uri), latest_tags[1])
                    ELSE current_image_uri

\* one round of the loop over the container definitions: the definitions it
\* appends (none when the loop continues before the append)
new_container_def(c, container_name, ecr, ecr_fault) ==
    LET current_image_uri == Get(c, "image", <<>>)
    IN IF should_update(c, container_name) /\ current_image_uri # <<>>
          /\ Contains(current_image_uri, MARKER)
       THEN LET info == extract_ecr_info(current_image_uri)
            IN IF info.region = <<>> \/ info.repo = <<>> THEN <<>>
               ELSE <<Put(c, "image",
                       latest_versioned_image(current_image_uri, info.repo, ecr, ecr_fault))>>
       ELSE <<c>>

RECURSIVE new_container_defs(_, _, _, _)
new_container_defs(container_defs, container_name, ecr, ecr_fault) ==
    IF container_defs = <<>> THEN <<>>
    ELSE new_container_def(Head(container_defs), container_name, ecr, ecr_fault)
         \o new_container_defs(Tail(container_defs), container_name, ecr, ecr_fault)

deploy_data(req, deployment_type, new_td_arn, t) ==
    LET d == [cluster |-> req.cluster, service |-> req.service,
              deployment_type |-> deployment_type,
              deployment_id |-> use_case_id(<<>>, req.cluster, req.service, t)]
    IN IF new_td_arn = None THEN d ELSE Put(d, "new_task_definition", new_td_arn)

\* fault names the collaborator call that fails, "service_missing" a
\* describe_services answer without the service, "none" a run without failure
deploy_new_image(history, services, revisions, ecr, req, fault, t) ==
    IF fault \in {"session", "describe_services", "service_missing",
                  "describe_task_definition"}
    THEN outcome_of(history, services, revisions, 500, "failed")
    ELSE
    LET td == describe_task_definition(revisions, services[req.service].taskDefinition)
    IN IF has_latest_tag(td.containerDefinitions)
       THEN IF fault = "update_service"
            THEN outcome_of(history, services, revisions, 500, "failed")
            ELSE outcome_of(
                    save_deployment_history(history,
                        deploy_data(req, "latest_tag_restart", None, t), t),
                    service_restarted(services, req.service), revisions, 200, "")
       ELSE
       LET defs == new_container_defs(td.containerDefinitions, req.container_name,
                                      ecr, fault = "describe_images")
           args == register_args_of(td, defs)
           new_td_arn == registered_arn(revisions, args)
       IN IF fault = "register_task_definition" \/ defs = <<>>
          THEN outcome_of(history, services, revisions, 500, "failed")
          ELSE IF fault = "update_service"
          THEN outcome_of(history, services, registered(revisions, args), 500, "failed")
          ELSE outcome_of(
                  save_deployment_history(history,
                      deploy_data(req, "versioned_tag_update", new_td_arn, t), t),
                  service_pointed_at(services, req.service, new_td_arn),
                  registered(revisions, args), 200, "")

force_new_deployment_saves_first(history, services, revisions, req, fault, t) ==
    IF fault = "session" THEN outcome_of(history, services, revisions, 400, "credentials")
    ELSE IF fault = "describe_services" THEN outcome_of(history, services, revisions, 500, "failed")
    ELSE IF fault = "service_missing" THEN outcome_of(history, services, revisions, 404, "Service not found")
    ELSE IF fault = "update_service"
    THEN outcome_of(save_deployment_history(history,
                        deploy_data(req, "force_new_deployment", None, t), t),
                    services, revisions, 500, "failed")
    ELSE outcome_of(
            save_deployment_history(history,
                deploy_data(req, "force_new_deployment", None, t), t),
            service_restarted(services, req.service), revisions, 200, "")

force_new_deployment(history, services, revisions, req, fault, t) ==
    IF fault = "session" THEN outcome_of(history, services, revisions, 400, "credentials")
    ELSE IF fault = "describe_services" THEN outcome_of(history, services, revisions, 500, "failed")
    ELSE IF fault = "service_missing" THEN outcome_of(history, services, revisions, 404, "Service not found")
    ELSE IF fault = "update_service" THEN outcome_of(history, services, revisions, 500, "failed")
    ELSE outcome_of(
            save_deployment_history(history,
                deploy_data(req, "force_new_deployment", None, t), t),
            service_restarted(services, req.service), revisions, 200, "")

----------------------------------------------------------------------------
(* routes/deployments.py: rollback_deployment *)

rollback_data(cluster, service, rollback_td_arn, deployment_id, t) ==
    [cluster |-> cluster, service |-> service, deployment_type |-> "rollback",
     new_task_definition |-> rollback_td_arn,
     deployment_id |-> use_case_id(<<"rollback", "-">>, cluster, service, t),
     original_deployment_id |-> deployment_id]

rollback_target_lenient(task_definitions) ==
    IF Len(task_definitions) < 1 THEN None
    ELSE task_definitions[Min(2, Len(task_definitions))]

\* task_definitions[1] of the list, None when it has fewer than two entries
rollback_target(task_definitions) ==
    IF Len(task_definitions) < 2 THEN None ELSE task_definitions[2]

rollback_deployment(history, services, revisions, deployment_id, fault, t) ==
    LET i == find_deployment(history, deployment_id)
    IN IF i = 0 THEN outcome_of(history, services, revisions, 404, "Deployment not found")
       ELSE
       LET cluster == history[i].cluster
           service == history[i].service
       IN IF cluster = "" \/ service = ""
          THEN outcome_of(history, services, revisions, 400, "Invalid deployment data")
          ELSE IF fault = "session" THEN outcome_of(history, services, revisions, 400, "credentials")
          ELSE IF fault = "describe_services"
          THEN outcome_of(history, services, revisions, 500, "failed")
          ELSE IF fault = "service_missing"
          THEN outcome_of(history, services, revisions, 404, "Service not found")
          ELSE IF fault \in {"describe_task_definition", "list_task_definitions"}
          THEN outcome_of(history, services, revisions, 500, "failed")
          ELSE
          LET current_td == describe_task_definition(revisions,
                                services[service].taskDefinition)
              task_definitions == list_task_definitions(revisions, current_td.family)
              rollback_td_arn == rollback_target(task_definitions)
          IN IF rollback_td_arn = None
             THEN outcome_of(history, services, revisions, 400,
                             "No previous version available for rollback")
             ELSE IF fault = "update_service"
             THEN outcome_of(history, services, revisions, 500, "failed")
             ELSE outcome_of(
                     save_deployment_history(history,
                         rollback_data(cluster, service, rollback_td_arn,
                                       deployment_id, t), t),
                     service_pointed_at(services, service, rollback_td_arn),
                     revisions, 200, "")

----------------------------------------------------------------------------
(* routes/task_definitions.py: update_task_definition *)

\* {e["name"]: e[value_key] for e in entries}: first position of a name,
\* last value given to it
dict_of(entries, value_key) ==
    LET firsts == {i \in 1..Len(entries) :
                     \A j \in 1..(i - 1) : entries[j].name # entries[i].name}
        nth(k) == CHOOSE i \in firsts : Cardinality({j \in firsts : j < i}) = k - 1
        final(name) == CHOOSE i \in 1..Len(entries) :
                          /\ entries[i].name = name
                          /\ \A j \in (i + 1)..Len(entries) : entries[j].name # name
    IN [k \in 1..Cardinality(firsts) |->
          [name |-> entries[nth(k)].name, value |-> entries[final(entries[nth(k)].name)][value_key]]]

\* d.update(u) for dicts kept as sequences of [name, value] with distinct names
dict_update(d, u) ==
    LET names(x) == {x[i].name : i \in 1..Len(x)}
        value_in(x, n) == x[CHOOSE i \in 1..Len(x) : x[i].name = n].value
        added == SelectSeq(u, LAMBDA e : e.name \notin names(d))
    IN [i \in 1..Len(d) |->
          IF d[i].name \in names(u)
          THEN [name |-> d[i].name, value |-> value_in(u, d[i].name)]
          ELSE d[i]] \o added

Remove(d, k) == [x \in (DOMAIN d) \ {k} |-> d[x]]

\* the body of the loop for a container that has an update; a field of the
\* update that is None is a key the update does not have
updated_container(container, update) ==
    LET c1 == IF "cpu" \in DOMAIN update
              THEN IF update.cpu # 0 THEN Put(container, "cpu", update.cpu)
                   ELSE Remove(container, "cpu")
              ELSE container
        c2 == IF "memory" \in DOMAIN update
              THEN IF update.memory # 0
                   THEN Remove(Put(c1, "memoryReservation", update.memory), "memory")
                   ELSE Remove(Remove(c1, "memoryReservation"), "memory")
              ELSE c1
        c3 == IF "image" \in DOMAIN update THEN Put(c2, "image", update.image) ELSE c2
        c4 == IF Get(update, "environment_variables", <<>>) # <<>>
              THEN Put(c3, "environment",
                       dict_update(dict_of(Get(c3, "environment", <<>>), "value"),
                                   update.environment_variables))
              ELSE c3
        c5 == IF Get(update, "secrets", <<>>) # <<>>
              THEN Put(c4, "secrets",
                       [i \in 1..Len(dict_update(dict_of(Get(c4, "secrets", <<>>), "valueFrom"),
                                                 update.secrets)) |->
                          LET e == dict_update(dict_of(Get(c4, "secrets", <<>>), "valueFrom"),
                                               update.secrets)[i]
                          IN [name |-> e.name, valueFrom |-> e.value]])
              ELSE c4
    IN c5

\* container_updates_map[name]: the last update given for the name
updated_containers(container_defs, container_updates) ==
    LET has(name) == \E k \in 1..Len(container_updates) :
                        container_updates[k].container_name = name
        update_for(name) ==
            container_updates[CHOOSE k \in 1..Len(container_updates) :
                /\ container_updates[k].container_name = name
                /\ \A l \in (k + 1)..Len(container_updates) :
                      container_updates[l].container_name # name]
    IN [i \in 1..Len(container_defs) |->
          IF has(container_defs[i].name)
          THEN updated_container(container_defs[i], update_for(container_defs[i].name))
          ELSE container_defs[i]]

\* the task-level cpu/memory of the request: set when given, deleted when not
task_level(td, key, value) ==
    IF value # "" THEN Put(td, key, value) ELSE Remove(td, key)

new_td_of(current_td, req) ==
    LET t1 == task_level(task_level(current_td, "cpu", req.cpu), "memory", req.memory)
    IN IF req.container_updates # <<>>
       THEN Put(t1, "containerDefinitions",
                updated_containers(t1.containerDefinitions, req.container_updates))
       ELSE t1

td_update_data(req, new_td_arn, t) ==
    [cluster |-> req.cluster, service |-> req.service,
     deployment_type |-> "task_definition_update",
     new_task_definition |-> new_td_arn,
     deployment_id |-> use_case_id(<<"td-update", "-">>, req.cluster, req.service, t)]

update_task_definition(history, services, revisions, req, fault, t) ==
    IF fault = "session" THEN outcome_of(history, services, revisions, 400, "credentials")
    ELSE IF fault = "describe_services" THEN outcome_of(history, services, revisions, 500, "failed")
    ELSE IF fault = "service_missing" THEN outcome_of(history, services, revisions, 404, "Service not found")
    ELSE IF fault = "describe_task_definition"
    THEN outcome_of(history, services, revisions, 500, "failed")
    ELSE
    LET current_td == describe_task_definition(revisions, services[req.service].taskDefinition)
        new_td == new_td_of(current_td, req)
        args == register_args_of(new_td, new_td.containerDefinitions)
        new_td_arn == registered_arn(revisions, args)
    IN IF fault = "register_task_definition"
       THEN outcome_of(history, services, revisions, 500, "failed")
       ELSE IF fault = "update_service"
       THEN outcome_of(history, services, registered(revisions, args), 500, "failed")
       ELSE outcome_of(
               save_deployment_history(history, td_update_data(req, new_td_arn, t), t),
               service_pointed_at(services, req.service, new_td_arn),
               registered(revisions, args), 200, "")

----------------------------------------------------------------------------
(* routes/deployments.py: refresh_deployment_status, _get_deployment_history_impl *)

\* what the poll inside update_deployment_status comes to: get_boto3_session
\* raising ends in the catch-all handler, describe_services raising or
\* answering without the service in the two inner error paths
poll_outcome(fault, obs) ==
    IF fault = "session" THEN [kind |-> "exception"]
    ELSE IF fault = "describe_services" THEN [kind |-> "raise"]
    ELSE IF fault = "service_missing" THEN [kind |-> "missing"]
    ELSE obs

\* the ledger after the request and the HTTP status
refresh_deployment_status(history, deployment_id, fault, obs, t) ==
    LET h == update_deployment_status(history, deployment_id, poll_outcome(fault, obs), t)
    IN [history |-> h,
        code |-> IF find_deployment(h, deployment_id) = 0 THEN 404 ELSE 200]

\* the entries of a list at the positions kept, in their order
filtered(history, kept) ==
    LET nth(k) == CHOOSE i \in kept : Cardinality({j \in kept : j < i}) = k - 1
    IN [k \in 1..Cardinality(kept) |-> history[nth(k)]]

\* the element of a one-element set: an intermediate result is computed once
\* and then used as a value
the(S) == CHOOSE x \in S : TRUE

\* the loop over deployments_to_update: one update_deployment_status per entry,
\* by its id
RECURSIVE reconcile_each(_, _, _, _, _)
reconcile_each(history, to_update, fault, obs, t) ==
    IF to_update = <<>> THEN history
    ELSE the({reconcile_each(h, Tail(to_update), fault, obs, t) :
                h \in {update_deployment_status(history, Head(to_update).deployment_id,
                                                poll_outcome(fault, obs), t)}})

\* filtered_history: the copy of the ledger after the cluster filter and the
\* service filter; cluster and service are "" when no filter is given
filtered_history_of(history, cluster, service) ==
    the({filtered(by_cluster,
            {i \in 1..Len(by_cluster) : service = "" \/ by_cluster[i].service = service}) :
         by_cluster \in {filtered(history,
            {i \in 1..Len(history) : cluster = "" \/ history[i].cluster = cluster})}})

\* the rest of the handler, from the selection of the non-terminal entries on;
\* the answer lists the ids of the entries returned
listing_of(history, filtered_history, limit, fault, obs, t) ==
    the({LET deployments_to_update ==
                 SubSeq(non_terminal_deployments, 1,
                        Min(Len(non_terminal_deployments), 100))
             returned == SubSeq(filtered_history, 1, Min(Len(filtered_history), limit))
         IN [history |-> reconcile_each(history, deployments_to_update, fault, obs, t),
             code |-> 200,
             deployments |-> [i \in 1..Len(returned) |-> returned[i].deployment_id]] :
         non_terminal_deployments \in {filtered(filtered_history,
            {i \in 1..Len(filtered_history) :
                filtered_history[i].status \in {"IN_PROGRESS", "PENDING", "UNKNOWN"}})}})

get_deployment_history_truncates_first(history, cluster, service, limit, fault, obs, t) ==
    LET first == SubSeq(history, 1, Min(Len(history), limit))
        returned == filtered(first,
            {i \in 1..Len(first) :
                /\ cluster = "" \/ first[i].cluster = cluster
                /\ service = "" \/ first[i].service = service})
    IN [history |-> history,
        code |-> 200,
        deployments |-> [i \in 1..Len(returned) |-> returned[i].deployment_id]]

get_deployment_history(history, cluster, service, limit, fault, obs, t) ==
    the({listing_of(history, filtered_history, limit, fault, obs, t) :
         filtered_history \in {filtered_history_of(history, cluster, service)}})

----------------------------------------------------------------------------
(* Inputs *)

Clusters == {"prod"}
ServiceNames == {"web", "api"}
LedgerServices == {"web"}
CustomId == <<"custom">>

\* (running, desired, pending) as describe_services reports them
Counts == {<<0, 1, 1>>, <<1, 2, 0>>, <<1, 1, 0>>}

Observations ==
    {[kind |-> "ok", rollout |-> r, running |-> c[1], desired |-> c[2], pending |-> c[3]] :
        r \in RolloutStates, c \in Counts}

PollOutcomes ==
    Observations \cup {[kind |-> k] : k \in {"raise", "missing", "exception"}}

\* what a direct caller of save_deployment_history may pass
BaseData ==
    {[cluster |-> c, service |-> s, deployment_type |-> "force_new_deployment"] :
        c \in Clusters, s \in LedgerServices}

LedgerData ==
    {b : b \in BaseData}
    \cup {Put(b, "deployment_id", CustomId) : b \in BaseData}
    \cup {Put(b, "status", "COMPLETED") : b \in BaseData}
    \cup {Put(Put(b, "deployment_id", CustomId), "status", "FAILED") : b \in BaseData}

\* the request threads of the server's thread pool
Threads == 1..MaxThreads

\* a thread that is not inside update_deployment_status
IdleThread == [pc |-> "idle", dep |-> 0, kind |-> "", status |-> ""]

\* no websocket has been accepted
NoLogSession == [pc |-> "none", connected |-> FALSE, last_token |-> 0, sent |-> 0]

AbsentId == <<"absent">>

\* the ids a request may name: those of the ledger and one that is not there
RequestIds(history) ==
    {history[i].deployment_id : i \in 1..Len(history)} \cup {AbsentId}

----------------------------------------------------------------------------
(* The ledger through its own operations: record, find, reconcile *)

\* the ledger on its own: no orchestrator, no registry
LedgerInit ==
    /\ deployment_history = <<>>
    /\ now = 0
    /\ last_call = [op |-> "none"]
    /\ inserted = <<>>
    /\ ecs_services = <<>>
    /\ ecs_revisions = <<>>
    /\ ecr_images = <<>>
    /\ threads = [th \in Threads |-> IdleThread]
    /\ log_session = NoLogSession

Tick ==
    /\ now < MaxTime
    /\ now' = now + 1
    /\ last_call' = [op |-> "tick"]
    /\ UNCHANGED <<deployment_history, inserted, ecs_vars, threads, log_session>>

Record(data) ==
    /\ Len(inserted) < MaxLedger
    /\ deployment_history' = save_deployment_history(deployment_history, data, now)
    /\ inserted' = Append(inserted, history_entry(data, now))
    /\ last_call' = [op |-> "record", data |-> data,
                     id |-> saved_id(data, now)]
    /\ UNCHANGED <<now, ecs_vars, threads, log_session>>

Reconcile(id, outcome) ==
    /\ deployment_history' = update_deployment_status(deployment_history, id, outcome, now)
    /\ last_call' = [op |-> "reconcile", id |-> id, kind |-> outcome.kind,
                     outcome |-> outcome]
    /\ UNCHANGED <<now, inserted, ecs_vars, threads, log_session>>

LedgerNext ==
    \/ Tick
    \/ \E data \in LedgerData : Record(data)
    \/ \E id \in RequestIds(deployment_history), outcome \in PollOutcomes :
            Reconcile(id, outcome)

SpecLedger == LedgerInit /\ [][LedgerNext]_vars

\* C1: a reconciliation whose poll fails (describe_services raises, the service
\* is missing from the response, or another exception occurs) leaves every
\* COMPLETED record COMPLETED.
C1_CompletedSurvivesFailedPoll ==
    [][(last_call'.op = "reconcile" /\ last_call'.kind # "ok") =>
        /\ Len(deployment_history') = Len(deployment_history)
        /\ \A i \in 1..Len(deployment_history) :
              deployment_history[i].status = "COMPLETED"
                  => deployment_history'[i].status = "COMPLETED"]_vars

\* a failed poll has just been applied to a record that is COMPLETED
C1_Witness ==
    /\ last_call.op = "reconcile"
    /\ last_call.kind \in {"raise", "missing", "exception"}
    /\ find_deployment(deployment_history, last_call.id) # 0
    /\ LET d == deployment_history[find_deployment(deployment_history, last_call.id)]
       IN d.status = "COMPLETED" /\ d.last_checked_at = isoformat(now)

\* C3: right after record, a lookup by the returned id finds the entry just
\* inserted, and its status is IN_PROGRESS whatever the caller supplied.
C3_RecordThenFind ==
    last_call.op = "record" =>
        LET i == find_deployment(deployment_history, last_call.id)
        IN /\ i # 0
           /\ deployment_history[i] = inserted[Len(inserted)]
           /\ deployment_history[i].cluster = last_call.data.cluster
           /\ deployment_history[i].service = last_call.data.service
           /\ deployment_history[i].status = "IN_PROGRESS"

\* record was called with a status of its own and with an id that an older,
\* already reconciled entry carries too
C3_Witness ==
    /\ last_call.op = "record"
    /\ "status" \in DOMAIN last_call.data
    /\ Len(deployment_history) = 2
    /\ deployment_history[2].deployment_id = last_call.id
    /\ deployment_history[2].status = "FAILED"

----------------------------------------------------------------------------
(* Filling the ledger past its capacity: one record per second *)

FillRecord ==
    /\ Len(inserted) < MaxFill
    /\ \E data \in {b \in BaseData : b.service = "web"} :
          /\ deployment_history' = save_deployment_history(deployment_history, data, now)
          /\ inserted' = Append(inserted, history_entry(data, now))
          /\ last_call' = [op |-> "record", data |-> data, id |-> saved_id(data, now)]
    /\ now' = now + 1
    /\ UNCHANGED <<ecs_vars, threads, log_session>>

SpecFill == LedgerInit /\ [][FillRecord]_vars

\* C2: the ledger holds at most 100 entries, and they are the most recently
\* inserted ones, most recent first (the eviction is FIFO by insertion).
C2_NewestHundred ==
    /\ Len(deployment_history) = Min(Len(inserted), 100)
    /\ \A i \in 1..Len(deployment_history) :
          deployment_history[i] = inserted[Len(inserted) - i + 1]

\* the 101st record has been inserted and one entry evicted
C2_Witness ==
    /\ Len(inserted) = 101
    /\ Len(deployment_history) = 100
    /\ deployment_history[100] = inserted[2]

----------------------------------------------------------------------------
(* The use cases against the orchestrator and the registry *)

EcrUri(repo, tag) ==
    <<"123456789012", MARKER, "us-east-1", SUFFIX, repo, COLON, tag>>

\* an image outside the managed registry, and one that carries the registry
\* marker but not the domain suffix
HubLatest == <<"nginx", COLON, "latest">>
OddUri == <<"123456789012", MARKER, "us-east-1", ".example.com/", "side", COLON, "v1">>

Container(name, image) == [name |-> name, image |-> image]

\* the container definitions revision 1 of the service's family may have
ContainerTemplates ==
    {<<Container("app", EcrUri("app", "v1"))>>,
     <<Container("app", EcrUri("app", "v1")), Container("side", HubLatest)>>,
     <<Container("app", EcrUri("app", "v1")), Container("side", EcrUri("side", "latest"))>>,
     <<Container("app", EcrUri("app", "v1")), Container("side", EcrUri("side", "v1"))>>,
     <<Container("app", EcrUri("app", "v1")), Container("side", OddUri)>>}

Image(digest, tags, pushed_at) ==
    [imageDigest |-> digest, imageTags |-> tags, imagePushedAt |-> pushed_at]

\* what describe_images(tagStatus=TAGGED) lists per repository
Registries ==
    {[r \in {<<"app">>, <<"side">>} |->
        <<Image("sha256:a", <<"v1">>, 1), Image("sha256:b", <<"v2", "stable">>, 2)>>],
     [r \in {<<"app">>, <<"side">>} |->
        IF r = <<"app">>
        THEN <<Image("sha256:b", <<"v2">>, 2), Image("sha256:a", <<"v1">>, 1),
               Image("sha256:c", <<"v3">>, 2)>>
        ELSE <<>>]}

SpecServices == {"web"}

ContainerNames == {"", "app", "side"}

Faults ==
    {"none", "session", "describe_services", "service_missing",
     "describe_task_definition", "describe_images", "list_task_definitions",
     "register_task_definition", "update_service"}

\* the overrides a task-definition update may carry
UpdateRequests ==
    {[cpu |-> "", memory |-> "", container_updates |-> <<>>],
     [cpu |-> "512", memory |-> "", container_updates |->
        <<[container_name |-> "app", image |-> EcrUri("app", "latest")]>>]}

Init ==
    /\ deployment_history = <<>>
    /\ now = 0
    /\ last_call = [op |-> "none"]
    /\ inserted = <<>>
    /\ ecs_services = [s \in SpecServices |-> [taskDefinition |-> <<s, 1>>, updates |-> 0]]
    /\ \E defs \in ContainerTemplates :
          ecs_revisions = [f \in SpecServices |->
                             <<[family |-> f, containerDefinitions |-> defs, cpu |-> "256"]>>]
    /\ ecr_images \in Registries
    /\ threads = [th \in Threads |-> IdleThread]
    /\ log_session = NoLogSession

TotalUpdates == LET RECURSIVE Sum(_)
                    Sum(S) == IF S = {} THEN 0
                              ELSE LET x == CHOOSE y \in S : TRUE
                                   IN ecs_services[x].updates + Sum(S \ {x})
                IN Sum(DOMAIN ecs_services)

\* the orchestrator still accepts a call of each kind
Roomy ==
    /\ TotalUpdates < MaxUpdates
    /\ \A f \in DOMAIN ecs_revisions : Len(ecs_revisions[f]) < MaxRevisions

Apply(out, call) ==
    /\ deployment_history' = out.history
    /\ ecs_services' = out.services
    /\ ecs_revisions' = out.revisions
    /\ inserted' = IF out.history # deployment_history
                   THEN Append(inserted, out.history[1]) ELSE inserted
    /\ last_call' = Put(Put(call, "code", out.code), "detail", out.detail)
    /\ UNCHANGED <<now, ecr_images, threads, log_session>>

DeployNewImage(service, container_name, fault) ==
    /\ Roomy
    /\ Apply(deploy_new_image(deployment_history, ecs_services, ecs_revisions, ecr_images,
                [cluster |-> "prod", service |-> service, container_name |-> container_name],
                fault, now),
             [op |-> "deploy_new_image", service |-> service,
              container_name |-> container_name, fault |-> fault])

ForceNewDeployment(service, fault) ==
    /\ Roomy
    /\ Apply(force_new_deployment(deployment_history, ecs_services, ecs_revisions,
                [cluster |-> "prod", service |-> service], fault, now),
             [op |-> "force_new_deployment", service |-> service, fault |-> fault])

Rollback(deployment_id, fault) ==
    /\ Roomy
    /\ Apply(rollback_deployment(deployment_history, ecs_services, ecs_revisions,
                deployment_id, fault, now),
             [op |-> "rollback_deployment", id |-> deployment_id, fault |-> fault])

UpdateTaskDefinition(service, upd, fault) ==
    /\ Roomy
    /\ Apply(update_task_definition(deployment_history, ecs_services, ecs_revisions,
                [cluster |-> "prod", service |-> service, cpu |-> upd.cpu,
                 memory |-> upd.memory, container_updates |-> upd.container_updates],
                fault, now),
             [op |-> "update_task_definition", service |-> service, fault |-> fault,
              request |-> upd])

Next ==
    \/ Tick
    \/ \E service \in SpecServices, container_name \in ContainerNames, fault \in Faults :
          DeployNewImage(service, container_name, fault)
    \/ \E service \in SpecServices, fault \in Faults : ForceNewDeployment(service, fault)
    \/ \E id \in RequestIds(deployment_history), fault \in Faults : Rollback(id, fault)
    \/ \E service \in SpecServices, upd \in UpdateRequests, fault \in Faults :
          UpdateTaskDefinition(service, upd, fault)

Spec == Init /\ [][Next]_vars

UseCaseOps ==
    {"deploy_new_image", "force_new_deployment", "rollback_deployment",
     "update_task_definition"}

\* the step just taken handled a request of the given kind
Handled(op) == last_call'.op = op

\* exactly one entry was written, in front of the entries there were
OneRecordWritten ==
    /\ Len(deployment_history') = Len(deployment_history) + 1
    /\ Tail(deployment_history') = deployment_history

\* C4: in each of the four use cases the ledger entry is written only together
\* with an accepted update_service, exactly one per successful use case; a use
\* case that fails, or whose describe_services or update_service call fails,
\* leaves the ledger unchanged.
C4_RecordOnlyAfterAcceptedUpdate ==
    [][last_call'.op \in UseCaseOps =>
        /\ last_call'.code = 200 => OneRecordWritten /\ TotalUpdates' = TotalUpdates + 1
        /\ last_call'.code # 200 => deployment_history' = deployment_history
        /\ deployment_history' # deployment_history => TotalUpdates' = TotalUpdates + 1
        /\ last_call'.fault \in {"describe_services", "service_missing", "update_service"}
              => deployment_history' = deployment_history]_vars

\* a rollback succeeded after a deployment: two accepted updates, two entries
C4_Witness ==
    /\ last_call.op = "rollback_deployment"
    /\ last_call.code = 200
    /\ TotalUpdates = 2
    /\ Len(deployment_history) = 2

\* the container definitions the service runs
CurrentContainers(service) ==
    describe_task_definition(ecs_revisions,
        ecs_services[service].taskDefinition).containerDefinitions

UsesLatest(image) ==
    Len(image) >= 2 /\ image[Len(image)] = "latest" /\ image[Len(image) - 1] = COLON

\* hosted on the managed registry: the reference has the registry marker and
\* the domain suffix
IsManaged(image) == Contains(image, MARKER) /\ Contains(image, SUFFIX)

RepoOf(image) ==
    <<image[CHOOSE i \in 1..Len(image) : i > 1 /\ image[i - 1] = SUFFIX]>>

\* the first tags of the entries of the repository that no entry is newer than
NewestFirstTags(images_info) ==
    {images_info[i].imageTags[1] : i \in {k \in 1..Len(images_info) :
        \A j \in 1..Len(images_info) :
            images_info[j].imagePushedAt <= images_info[k].imagePushedAt}}

NamedBy(c, container_name) == container_name = "" \/ c.name = container_name

\* C6: a deploy-new-image on a service none of whose containers uses latest
\* registers exactly one new revision, points the service at it and writes one
\* versioned_tag_update entry; in that revision a container has a new image
\* only if it is eligible (named by the request, or any when no name is given,
\* and on the managed registry), and every eligible container whose repository
\* lists images has the first tag of a newest pushed one.
C6_VersionedDeploy ==
    [][(/\ Handled("deploy_new_image")
        /\ last_call'.code = 200
        /\ \A i \in 1..Len(CurrentContainers(last_call'.service)) :
              ~UsesLatest(CurrentContainers(last_call'.service)[i].image))
       =>
       LET service == last_call'.service
           family == ecs_services[service].taskDefinition[1]
           old == CurrentContainers(service)
           new_arn == <<family, Len(ecs_revisions[family]) + 1>>
           new == ecs_revisions'[family][Len(ecs_revisions'[family])].containerDefinitions
           eligible(c) == NamedBy(c, last_call'.container_name) /\ IsManaged(c.image)
       IN /\ Len(ecs_revisions'[family]) = Len(ecs_revisions[family]) + 1
          /\ ecs_services'[service].taskDefinition = new_arn
          /\ ecs_services'[service].updates = ecs_services[service].updates + 1
          /\ OneRecordWritten
          /\ deployment_history'[1].deployment_type = "versioned_tag_update"
          /\ deployment_history'[1].new_task_definition = new_arn
          /\ \A j \in 1..Len(new) : \E i \in 1..Len(old) :
                /\ old[i].name = new[j].name
                /\ new[j].image # old[i].image => eligible(old[i])
          /\ \A i \in 1..Len(old) :
                (/\ eligible(old[i])
                 /\ last_call'.fault # "describe_images"
                 /\ ecr_images[RepoOf(old[i].image)] # <<>>)
                => \E j \in 1..Len(new) :
                      /\ new[j].name = old[i].name
                      /\ \E tag \in NewestFirstTags(ecr_images[RepoOf(old[i].image)]) :
                            new[j].image = EcrUri(RepoOf(old[i].image)[1], tag)
      ]_vars

\* a deploy naming the container app moved it from v1 to another tag and left
\* the managed-registry container beside it alone
C6_Witness ==
    /\ last_call.op = "deploy_new_image"
    /\ last_call.code = 200
    /\ last_call.container_name = "app"
    /\ LET defs == CurrentContainers(last_call.service)
       IN /\ Len(defs) = 2
          /\ defs[1].image # EcrUri("app", "v1")
          /\ defs[2].image = EcrUri("side", "v1")
    /\ deployment_history[1].deployment_type = "versioned_tag_update"

\* the deploy restarted the service on its current definition
RestartedInPlace ==
    /\ ecs_revisions' = ecs_revisions
    /\ ecs_services'[last_call'.service].taskDefinition
          = ecs_services[last_call'.service].taskDefinition
    /\ ecs_services'[last_call'.service].updates
          = ecs_services[last_call'.service].updates + 1
    /\ OneRecordWritten
    /\ deployment_history'[1].deployment_type = "latest_tag_restart"

C8_NoPreviousVersion ==
    [][(/\ Handled("rollback_deployment")
        /\ last_call'.fault \in {"none", "update_service"}
        /\ find_deployment(deployment_history, last_call'.id) # 0
        /\ LET d == deployment_history[find_deployment(deployment_history, last_call'.id)]
           IN Len(ecs_revisions[ecs_services[d.service].taskDefinition[1]]) < 2)
       =>
       /\ last_call'.code = 400
       /\ last_call'.detail = "No previous version available for rollback"
       /\ ecs_services' = ecs_services
       /\ ecs_revisions' = ecs_revisions
       /\ deployment_history' = deployment_history]_vars

\* a rollback of an existing entry was refused for want of a previous revision
C8_Witness ==
    /\ last_call.op = "rollback_deployment"
    /\ last_call.detail = "No previous version available for rollback"
    /\ find_deployment(deployment_history, last_call.id) # 0
    /\ Len(ecs_revisions["web"]) = 1

\* C9: after a successful rollback of entry R the ledger's new entry carries
\* R's id in original_deployment_id.
C9_RollbackLinksOriginal ==
    (last_call.op = "rollback_deployment" /\ last_call.code = 200) =>
        /\ deployment_history[1].deployment_type = "rollback"
        /\ Get(deployment_history[1], "original_deployment_id", None) = last_call.id

----------------------------------------------------------------------------
(* Reconciliations in parallel request threads.  The route handlers are plain
   def functions, which the server runs in a thread pool, and nothing guards
   the ledger: a thread can be preempted between any two statements of
   update_deployment_status.  Each action below is one such stretch of one
   thread: the lookup, the blocking describe_services call, the test of the
   status, the write of the status, the bookkeeping fields. *)

\* what the poll of a thread may come back with
ThreadOutcomes ==
    {o \in PollOutcomes :
        o.kind = "ok" => (o.rollout \in {"COMPLETED", "FAILED", "IN_PROGRESS"}
                          /\ o.running = 1 /\ o.desired = 1)}

\* the test that guards the write of UNKNOWN in each of the three error paths
may_mark_unknown(kind, status) ==
    IF kind = "missing" THEN status \notin {"COMPLETED", "FAILED"}
    ELSE status # "COMPLETED"

\* the fields written after the status
stamped(deployment, kind, t) ==
    LET d1 == IF kind = "missing" THEN Put(deployment, "status_error", "Service not found")
              ELSE IF kind = "exception" THEN Put(deployment, "status_error", "error text")
              ELSE deployment
        d2 == Put(d1, "last_checked_at", isoformat(t))
    IN Put(d2, "next_refresh_at",
           IF kind # "ok" \/ d2.status \in {"IN_PROGRESS", "PENDING", "UNKNOWN"}
           THEN isoformat(t) ELSE None)

ThreadInit ==
    /\ \E data \in BaseData :
          /\ deployment_history = save_deployment_history(<<>>, data, 0)
          /\ inserted = <<history_entry(data, 0)>>
    /\ now = 0
    /\ last_call = [op |-> "none"]
    /\ ecs_services = <<>>
    /\ ecs_revisions = <<>>
    /\ ecr_images = <<>>
    /\ threads = [th \in Threads |-> IdleThread]
    /\ log_session = NoLogSession

\* the lookup and the two early returns
Find(th, id) ==
    /\ threads[th].pc = "idle"
    /\ LET i == find_deployment(deployment_history, id)
       IN threads' = IF i = 0 THEN threads
                     ELSE IF deployment_history[i].cluster = ""
                             \/ deployment_history[i].service = "" THEN threads
                     ELSE [threads EXCEPT ![th] = [IdleThread EXCEPT !.pc = "calling", !.dep = i]]
    /\ UNCHANGED <<ledger_vars, ecs_vars, log_session>>

\* get_boto3_session and describe_services return or raise
Describe(th, outcome) ==
    /\ threads[th].pc = "calling"
    /\ threads' = [threads EXCEPT ![th] =
          [@ EXCEPT !.kind = outcome.kind,
                    !.pc = IF outcome.kind = "ok" THEN "write" ELSE "check",
                    !.status = IF outcome.kind = "ok" THEN status_of_poll(outcome) ELSE ""]]
    /\ UNCHANGED <<ledger_vars, ecs_vars, log_session>>

\* an error path reads the status and decides whether to mark the entry
Check(th) ==
    /\ threads[th].pc = "check"
    /\ threads' = [threads EXCEPT ![th].pc =
          IF may_mark_unknown(threads[th].kind, deployment_history[threads[th].dep].status)
          THEN "mark" ELSE "stamp"]
    /\ UNCHANGED <<ledger_vars, ecs_vars, log_session>>

\* deployment["status"] = "UNKNOWN" (and status_error where describe_services raised)
Mark(th) ==
    /\ threads[th].pc = "mark"
    /\ deployment_history' = [deployment_history EXCEPT ![threads[th].dep] =
          IF threads[th].kind = "raise"
          THEN Put(Put(@, "status", "UNKNOWN"), "status_error", "error text")
          ELSE Put(@, "status", "UNKNOWN")]
    /\ threads' = [threads EXCEPT ![th].pc = "stamp"]
    /\ UNCHANGED <<now, last_call, inserted, ecs_vars, log_session>>

\* the poll answered: deployment["status"] = the status it maps to
Write(th) ==
    /\ threads[th].pc = "write"
    /\ deployment_history' = [deployment_history EXCEPT ![threads[th].dep] =
          Put(@, "status", threads[th].status)]
    /\ threads' = [threads EXCEPT ![th].pc = "stamp"]
    /\ UNCHANGED <<now, last_call, inserted, ecs_vars, log_session>>

\* the bookkeeping fields, then the function returns
Stamp(th) ==
    /\ threads[th].pc = "stamp"
    /\ deployment_history' = [deployment_history EXCEPT ![threads[th].dep] =
          stamped(@, threads[th].kind, now)]
    /\ threads' = [threads EXCEPT ![th] = IdleThread]
    /\ UNCHANGED <<now, last_call, inserted, ecs_vars, log_session>>

ThreadNext ==
    \/ \E th \in Threads, id \in RequestIds(deployment_history) : Find(th, id)
    \/ \E th \in Threads, outcome \in ThreadOutcomes : Describe(th, outcome)
    \/ \E th \in Threads : Check(th)
    \/ \E th \in Threads : Mark(th)
    \/ \E th \in Threads : Write(th)
    \/ \E th \in Threads : Stamp(th)

SpecThreads == ThreadInit /\ [][ThreadNext]_vars

\* C5: with reconciliations of one record running in parallel threads, no step
\* turns a status that is COMPLETED into UNKNOWN (in this specification only
\* an errored reconciliation writes UNKNOWN and only a reconciliation whose
\* poll answered writes COMPLETED).
C5_NoUnknownOverCompleted ==
    [][\A i \in 1..Len(deployment_history) :
          deployment_history[i].status = "COMPLETED"
              => deployment_history'[i].status # "UNKNOWN"]_vars

----------------------------------------------------------------------------
(* The image comparison on its own: one repository listing, one call *)

NoDigestLatest == [imageTags |-> <<"latest">>, imagePushedAt |-> 1]
Untagged == [imageDigest |-> "sha256:d", imagePushedAt |-> 3]
NoPushTime == [imageDigest |-> "sha256:e", imageTags |-> <<"v4">>]

\* the image details a repository may list
ImagePool ==
    {Image("sha256:a", <<"v1">>, 1),
     Image("sha256:a", <<"v1", "latest">>, 1),
     Image("sha256:b", <<"v2">>, 2),
     Image("sha256:b", <<"v2", "latest">>, 2),
     Image("sha256:c", <<"latest", "v3">>, 2),
     NoDigestLatest, Untagged, NoPushTime}

TagsOf(img) == {img.imageTags[k] : k \in 1..Len(Get(img, "imageTags", <<>>))}

\* a registry gives a tag to one image of the repository and lists an image once
Listable(l) ==
    \A i, j \in 1..Len(l) :
        i # j => /\ TagsOf(l[i]) \cap TagsOf(l[j]) = {}
                 /\ digest_of(l[i]) = "" \/ digest_of(l[i]) # digest_of(l[j])

RECURSIVE ListsUpTo(_)
ListsUpTo(n) ==
    IF n = 0 THEN {<<>>}
    ELSE ListsUpTo(n - 1)
         \cup {Append(l, img) : l \in {x \in ListsUpTo(n - 1) : Len(x) = n - 1},
                                img \in ImagePool}

CandidateLists == {l \in ListsUpTo(MaxCandidates) : Listable(l)}

CurrentUris ==
    {<<>>, EcrUri("app", "latest"), EcrUri("app", "v1"), EcrUri("app", "v2"), HubLatest}

\* the digest of the running task: "" when none is passed
RunningDigests == {"", "sha256:a", "sha256:b"}

ResolveInit ==
    /\ deployment_history = <<>>
    /\ now = 0
    /\ last_call = [op |-> "none"]
    /\ inserted = <<>>
    /\ ecs_services = <<>>
    /\ ecs_revisions = <<>>
    /\ ecr_images \in {[r \in {<<"app">>} |-> l] : l \in CandidateLists}
    /\ threads = [th \in Threads |-> IdleThread]
    /\ log_session = NoLogSession

Resolve(current_image_uri, running_task_digest) ==
    /\ last_call.op = "none"
    /\ LET images_info == ecr_images[<<"app">>]
           r == unified_image_comparison(current_image_uri, images_info,
                                         running_task_digest)
       IN /\ last_call' = [op |-> "resolve", current |-> current_image_uri,
                           images |-> images_info, running |-> running_task_digest,
                           has_updates |-> r.has_updates,
                           latest_image_uri |-> r.latest_image_uri]
          /\ ecr_images' = [ecr_images EXCEPT ![<<"app">>] = images_after(images_info)]
    /\ UNCHANGED <<deployment_history, now, inserted, ecs_services, ecs_revisions, threads, log_session>>

ResolveNext ==
    \E current_image_uri \in CurrentUris, running_task_digest \in RunningDigests :
        Resolve(current_image_uri, running_task_digest)

SpecResolve == ResolveInit /\ [][ResolveNext]_vars

\* the call just answered had a reference with the tag latest and a non-empty
\* listing of registry entries (each with its push time)
ResolvedLatest ==
    /\ last_call.op = "resolve"
    /\ UsesLatest(last_call.current)
    /\ last_call.images # <<>>
    /\ \A i \in 1..Len(last_call.images) : "imagePushedAt" \in DOMAIN last_call.images[i]

\* the most recently pushed entry; of entries pushed at the same time the one
\* listed first
MostRecentlyPushed(images) ==
    CHOOSE i \in 1..Len(images) :
        \A j \in 1..Len(images) :
            \/ images[j].imagePushedAt < images[i].imagePushedAt
            \/ (images[j].imagePushedAt = images[i].imagePushedAt /\ i <= j)

DigestOrNone(img) == IF "imageDigest" \in DOMAIN img THEN img.imageDigest ELSE ""

\* C10: for a reference tagged latest and a non-empty listing, has_updates says
\* whether the running digest (when one is passed), else the digest of the entry
\* tagged latest, differs from the digest of the most recently pushed entry; it
\* is false when one of the two digests is not known; the reference returned is
\* the current one, tagged latest.
C10_LatestComparedByDigest ==
    ResolvedLatest =>
        LET images == last_call.images
            newest == DigestOrNone(images[MostRecentlyPushed(images)])
            tagged == {DigestOrNone(images[i]) :
                         i \in {k \in 1..Len(images) : "latest" \in TagsOf(images[k])}}
            mine == IF last_call.running # "" THEN {last_call.running} ELSE tagged
        IN /\ last_call.has_updates =
                 (newest # "" /\ \E d \in mine : d # "" /\ d # newest)
           /\ last_call.latest_image_uri = last_call.current

\* no running digest was passed, the entry tagged latest is listed first, a
\* newer entry with another digest after it: an update is reported
C10_Witness ==
    /\ ResolvedLatest
    /\ last_call.running = ""
    /\ Len(last_call.images) >= 2
    /\ "latest" \in TagsOf(last_call.images[1])
    /\ MostRecentlyPushed(last_call.images) # 1
    /\ last_call.has_updates

\* the call just answered had a reference with a tag other than latest and a
\* non-empty listing of registry entries (each with its push time)
ResolvedVersioned ==
    /\ last_call.op = "resolve"
    /\ last_call.current # <<>>
    /\ ~UsesLatest(last_call.current)
    /\ last_call.images # <<>>
    /\ \A i \in 1..Len(last_call.images) : "imagePushedAt" \in DOMAIN last_call.images[i]

\* the tag of a reference registry/repository:tag, and the reference with
\* another tag in its place
TagOfReference(uri) == uri[Len(uri)]
Retagged(uri, tag) == [uri EXCEPT ![Len(uri)] = tag]

\* C11: for a reference with a versioned tag and a non-empty listing, with T the
\* first tag of the most recently pushed entry: has_updates says whether the
\* current tag differs from T, and the reference returned is the current one
\* with its tag rewritten to T; if that entry has no tags the answer is no
\* update and the current reference.
C11_VersionedComparedByTag ==
    ResolvedVersioned =>
        LET images == last_call.images
            newest == images[MostRecentlyPushed(images)]
            tags == IF "imageTags" \in DOMAIN newest THEN newest.imageTags ELSE <<>>
        IN IF tags = <<>>
           THEN /\ ~last_call.has_updates
                /\ last_call.latest_image_uri = last_call.current
           ELSE /\ last_call.has_updates = (TagOfReference(last_call.current) # tags[1])
                /\ last_call.latest_image_uri = Retagged(last_call.current, tags[1])

\* the newest entry is not the first listed, its first tag is not the current
\* one: an update to that tag is reported
C11_Witness ==
    /\ ResolvedVersioned
    /\ Len(last_call.images) >= 2
    /\ MostRecentlyPushed(last_call.images) # 1
    /\ last_call.has_updates
    /\ last_call.latest_image_uri # last_call.current

\* the order of the entries by push time cannot be established: one entry has
\* no push time and there is another entry to compare it with
PushOrderUnknown(images) ==
    /\ Len(images) >= 2
    /\ \E i \in 1..Len(images) : "imagePushedAt" \notin DOMAIN images[i]

\* a digest that the comparison by digest needs is not known
DigestUnknown(call) ==
    /\ UsesLatest(call.current)
    /\ call.images # <<>>
    /\ ~PushOrderUnknown(call.images)
    /\ \A i \in 1..Len(call.images) : "imagePushedAt" \in DOMAIN call.images[i]
    /\ \/ DigestOrNone(call.images[MostRecentlyPushed(call.images)]) = ""
       \/ /\ call.running = ""
          /\ \A i \in 1..Len(call.images) :
                "latest" \in TagsOf(call.images[i]) => DigestOrNone(call.images[i]) = ""

\* the entry whose first tag the comparison by tag needs has no tags
TagUnknown(call) ==
    /\ call.current # <<>>
    /\ ~UsesLatest(call.current)
    /\ call.images # <<>>
    /\ \A i \in 1..Len(call.images) : "imagePushedAt" \in DOMAIN call.images[i]
    /\ TagsOf(call.images[MostRecentlyPushed(call.images)]) = {}

FreshnessUndetermined(call) ==
    \/ call.images = <<>>
    \/ PushOrderUnknown(call.images)
    \/ DigestUnknown(call)
    \/ TagUnknown(call)

\* C12: the comparison always answers, and whenever freshness cannot be
\* determined (no entries, an entry without push time among others, a digest
\* or a tag list that is needed and missing) the answer is no update and the
\* current reference.
C12_SafeDefaultWhenUndetermined ==
    last_call.op = "resolve" =>
        /\ last_call.has_updates \in BOOLEAN
        /\ FreshnessUndetermined(last_call) =>
              /\ ~last_call.has_updates
              /\ last_call.latest_image_uri = last_call.current

\* every entry has a push time and no two entries have the same
DistinctPushTimes(images) ==
    /\ \A i \in 1..Len(images) : "imagePushedAt" \in DOMAIN images[i]
    /\ \A i, j \in 1..Len(images) :
          i # j => images[i].imagePushedAt # images[j].imagePushedAt

\* the sequences that list the same entries in another order
Reorderings(images) ==
    {[i \in 1..Len(images) |-> images[f[i]]] : f \in Permutations(1..Len(images))}

\* C13: the comparison leaves the list it was given as it was, a second call
\* with the same arguments gives the same answer, and for entries with pairwise
\* distinct push times every reordering of the list gives the same answer.
C13_OrderIndependent ==
    last_call.op = "resolve" =>
        LET answer == comparison(last_call.has_updates, last_call.latest_image_uri)
        IN /\ ecr_images[<<"app">>] = last_call.images
           /\ unified_image_comparison(last_call.current, ecr_images[<<"app">>],
                                       last_call.running) = answer
           /\ DistinctPushTimes(last_call.images) =>
                 \A other \in Reorderings(last_call.images) :
                     unified_image_comparison(last_call.current, other,
                                              last_call.running) = answer

\* three entries with distinct push times were passed oldest first, and the
\* answer names the newest
C13_Witness ==
    /\ last_call.op = "resolve"
    /\ Len(last_call.images) = 3
    /\ DistinctPushTimes(last_call.images)
    /\ MostRecentlyPushed(last_call.images) = 3
    /\ ecr_images[<<"app">>] = last_call.images
    /\ last_call.has_updates

----------------------------------------------------------------------------
(* routes/logs.py: websocket_logs, one log-streaming session.  The handler is
   a coroutine; it learns that the client is gone only from a send_text that
   raises.  The log store holds MaxBatches batches of events after the first
   fetch; a poll returns the next batch, nothing, or raises. *)

\* the number of events in a batch
BatchSizes == {1, 2}

\* what get_log_events may answer in the loop
LogAnswers == {"events", "empty", "raise"}

\* websocket.accept(): the session starts with the client connected
LogsInit ==
    /\ deployment_history = <<>>
    /\ now = 0
    /\ last_call = [op |-> "none"]
    /\ inserted = <<>>
    /\ ecs_services = <<>>
    /\ ecs_revisions = <<>>
    /\ ecr_images = <<>>
    /\ threads = [th \in Threads |-> IdleThread]
    /\ log_session = [pc |-> "accepted", connected |-> TRUE, last_token |-> 0, sent |-> 0]

\* the client closes the connection
Disconnect ==
    /\ log_session.connected
    /\ log_session' = [log_session EXCEPT !.connected = FALSE]
    /\ UNCHANGED <<ledger_vars, ecs_vars, threads>>

\* send_text of n messages: on a closed connection the first one raises
sent_after(session, n) ==
    IF session.connected THEN [session EXCEPT !.sent = @ + n] ELSE session

\* log_group or log_stream is missing, or get_boto3_session raises: one error
\* message, then the handler closes the websocket and returns
Reject ==
    /\ log_session.pc = "accepted"
    /\ log_session' = [sent_after(log_session, 1) EXCEPT !.pc = "closed"]
    /\ UNCHANGED <<ledger_vars, ecs_vars, threads>>

\* the first get_log_events and the messages for its events; a send_text that
\* raises is caught, the error message raises again, and the handler ends in
\* its finally clause
InitialFetch(n) ==
    /\ log_session.pc = "accepted"
    /\ log_session' =
          IF n > 0 /\ ~log_session.connected
          THEN [log_session EXCEPT !.pc = "closed"]
          ELSE [sent_after(log_session, n) EXCEPT !.pc = "poll"]
    /\ UNCHANGED <<ledger_vars, ecs_vars, threads>>

\* one round of the loop up to the sleep: get_log_events, and for a non-empty
\* answer the token and one message per event
Poll(answer, n) ==
    /\ log_session.pc = "poll"
    /\ answer = "events" => log_session.last_token < MaxBatches
    /\ log_session' =
          IF answer = "raise"
          THEN [sent_after(log_session, 1) EXCEPT !.pc = "closed"]
          ELSE IF answer = "empty"
          THEN [log_session EXCEPT !.pc = "sleep"]
          ELSE IF ~log_session.connected
          THEN [log_session EXCEPT !.pc = "closed", !.last_token = @ + 1]
          ELSE [sent_after(log_session, n) EXCEPT !.pc = "sleep", !.last_token = @ + 1]
    /\ UNCHANGED <<ledger_vars, ecs_vars, threads>>

\* asyncio.sleep(interval) returns
Sleep ==
    /\ log_session.pc = "sleep"
    /\ log_session' = [log_session EXCEPT !.pc = "poll"]
    /\ UNCHANGED <<ledger_vars, ecs_vars, threads>>

LogsNext ==
    \/ Disconnect
    \/ Reject
    \/ \E n \in BatchSizes \cup {0} : InitialFetch(n)
    \/ \E answer \in LogAnswers, n \in BatchSizes : Poll(answer, n)
    \/ Sleep

\* the event loop keeps running the coroutine
SpecLogs ==
    /\ LogsInit
    /\ [][LogsNext]_vars
    /\ WF_vars(Reject \/ \E n \in BatchSizes \cup {0} : InitialFetch(n))
    /\ WF_vars(\E answer \in LogAnswers, n \in BatchSizes : Poll(answer, n))
    /\ WF_vars(Sleep)

\* C14: once the client has disconnected, the polling loop eventually ends.
C14_PollerStopsAfterDisconnect ==
    (~log_session.connected) ~> (log_session.pc = "closed")

----------------------------------------------------------------------------
(* The ledger through the requests that read it: refresh and listing *)

\* what fails in a refresh or a listing: "session" is a request whose
\* credentials get_boto3_session rejects
PollFaults == {"none", "session", "describe_services", "service_missing"}

\* what describe_services reports when it answers with the service
SpecObservations ==
    {o \in Observations :
        \/ o.rollout \in {"COMPLETED", "IN_PROGRESS"} /\ o.running = 1 /\ o.desired = 1
        \/ o.rollout = "no_primary" /\ o.running = 0}

\* a request's way through the poll: what fails, and what the service reports
\* when nothing does
PollInputs ==
    {[fault |-> "none", obs |-> o] : o \in SpecObservations}
    \cup {[fault |-> f, obs |-> CHOOSE o \in SpecObservations : TRUE] :
            f \in PollFaults \ {"none"}}

ServiceFilters == {"", "web", "api"}
Limits == {1, 50}

\* POST /deployment_history/{deployment_id}/refresh
Refresh(deployment_id, fault, obs) ==
    /\ LET out == refresh_deployment_status(deployment_history, deployment_id, fault, obs, now)
       IN /\ deployment_history' = out.history
          /\ last_call' = [op |-> "refresh_deployment_status", id |-> deployment_id,
                           fault |-> fault, code |-> out.code]
    /\ UNCHANGED <<now, inserted, ecs_vars, threads, log_session>>

\* GET /deployment_history
ListHistory(service, limit, fault, obs) ==
    /\ LET out == get_deployment_history(deployment_history, "", service, limit,
                                         fault, obs, now)
       IN /\ deployment_history' = out.history
          /\ last_call' = [op |-> "get_deployment_history", service |-> service,
                           fault |-> fault, code |-> out.code,
                           deployments |-> out.deployments]
    /\ UNCHANGED <<now, inserted, ecs_vars, threads, log_session>>

RequestsNext ==
    \/ Tick
    \/ \E data \in LedgerData : Record(data)
    \/ \E id \in RequestIds(deployment_history), p \in PollInputs :
          Refresh(id, p.fault, p.obs)
    \/ \E service \in ServiceFilters, limit \in Limits, p \in PollInputs :
          ListHistory(service, limit, p.fault, p.obs)

SpecRequests == LedgerInit /\ [][RequestsNext]_vars

\* the request just handled named a service the orchestrator does not have, or
\* a record the ledger does not have
TargetWasAbsent ==
    /\ last_call'.op \in UseCaseOps
    /\ \/ last_call'.fault = "service_missing"
       \/ /\ last_call'.op = "rollback_deployment"
          /\ find_deployment(deployment_history, last_call'.id) = 0

\* C15: when the service or the record a request names does not exist, each use
\* case (deploy-new-image, force-new-deployment, rollback, task-definition
\* update) answers 404 and writes no record, and so does a refresh.
C15_AbsentTargetIs404 ==
    [][/\ TargetWasAbsent =>
             /\ last_call'.code = 404
             /\ deployment_history' = deployment_history
       /\ \A obs \in SpecObservations :
             refresh_deployment_status(deployment_history, AbsentId, "none", obs, now)
                = [history |-> deployment_history, code |-> 404]]_vars

\* the fields of an entry that a reconciliation may write
ReconciledFields(d) ==
    <<d.status, Get(d, "status_error", ""), d.last_checked_at, d.next_refresh_at>>

\* C16: a refresh or a listing with credentials that get_boto3_session rejects
\* is answered with an error, and leaves status, status_error, last_checked_at
\* and next_refresh_at of every record as they were.
C16_BadCredentialsChangeNothing ==
    [][(/\ last_call'.op \in {"refresh_deployment_status", "get_deployment_history"}
        /\ last_call'.fault = "session")
       => /\ last_call'.code # 200
          /\ Len(deployment_history') = Len(deployment_history)
          /\ \A i \in 1..Len(deployment_history) :
                ReconciledFields(deployment_history'[i])
                    = ReconciledFields(deployment_history[i])]_vars

\* the status the counts alone stand for
FromCounts(obs) ==
    CASE obs.running = 0 -> "PENDING"
      [] obs.running # 0 /\ (obs.running < obs.desired \/ obs.pending > 0) -> "IN_PROGRESS"
      [] OTHER -> "COMPLETED"

\* the status an answered poll stands for
StatusObserved(obs) ==
    CASE obs.rollout = "FAILED" -> "FAILED"
      [] obs.rollout = "COMPLETED" -> "COMPLETED"
      [] obs.rollout \in {"IN_PROGRESS", "PENDING", "STARTED"} -> "IN_PROGRESS"
      [] OTHER -> FromCounts(obs)

\* C17: after a reconciliation whose poll answered, the status of the record is
\* the one the observation stands for, whatever it was before: the PRIMARY
\* rollout state where it is FAILED, COMPLETED, IN_PROGRESS, PENDING or STARTED
\* (the last three give IN_PROGRESS), else the status inferred from the counts.
C17_StatusFromObservation ==
    [][(/\ last_call'.op = "reconcile"
        /\ last_call'.kind = "ok"
        /\ find_deployment(deployment_history, last_call'.id) # 0)
       => deployment_history'[find_deployment(deployment_history, last_call'.id)].status
             = StatusObserved(last_call'.outcome)]_vars

\* a poll has just answered for a record and left it PENDING: no rollout state
\* the code names, and no running task
C17_Witness ==
    /\ last_call.op = "reconcile"
    /\ last_call.kind = "ok"
    /\ find_deployment(deployment_history, last_call.id) # 0
    /\ LET d == deployment_history[find_deployment(deployment_history, last_call.id)]
       IN d.status = "PENDING" /\ d.last_checked_at = isoformat(now)

\* the step just taken reconciled a record of the ledger with a poll of the
\* given kind
Reconciled(kind) ==
    /\ last_call'.op = "reconcile"
    /\ last_call'.kind = kind
    /\ find_deployment(deployment_history, last_call'.id) # 0

\* the record the step reconciled, before and after
Before == deployment_history[find_deployment(deployment_history, last_call'.id)]
After == deployment_history'[find_deployment(deployment_history, last_call'.id)]

\* C18: when describe_services raises, a record that is not COMPLETED becomes
\* UNKNOWN with the error text in status_error, and every record gets
\* last_checked_at stamped and a next_refresh_at that is not null.
C18_DescribeErrorMarksUnknown ==
    [][Reconciled("raise") =>
          /\ Before.status # "COMPLETED" =>
                /\ After.status = "UNKNOWN"
                /\ Get(After, "status_error", "") = "error text"
          /\ After.last_checked_at = isoformat(now)
          /\ After.next_refresh_at # None]_vars

\* describe_services has just raised for a record that a poll had set FAILED
\* and cleared of its next refresh: it is UNKNOWN and armed again
C18_Witness ==
    /\ last_call.op = "reconcile"
    /\ last_call.kind = "raise"
    /\ now = 1
    /\ find_deployment(deployment_history, last_call.id) # 0
    /\ LET d == deployment_history[find_deployment(deployment_history, last_call.id)]
       IN /\ d.status = "UNKNOWN"
          /\ Get(d, "status_error", "") = "error text"
          /\ d.last_checked_at = isoformat(1)
          /\ d.next_refresh_at = isoformat(1)

\* C19: when the poll reports the service as not found, only a COMPLETED record
\* keeps its status; every other record, a FAILED one included, becomes UNKNOWN.
C19_MissingServiceSparesOnlyCompleted ==
    [][Reconciled("missing") =>
          After.status = IF Before.status = "COMPLETED" THEN "COMPLETED"
                         ELSE "UNKNOWN"]_vars

\* the poll answered with a rollout state of its own that is not the record's
ExplicitContradiction(outcome, status) ==
    /\ outcome.kind = "ok"
    /\ outcome.rollout \in {"FAILED", "COMPLETED", "IN_PROGRESS", "PENDING", "STARTED"}
    /\ outcome.rollout # status

\* C20: a record that is COMPLETED or FAILED gets a non-terminal status only
\* from a poll that answered with an explicit rollout state contradicting it:
\* not from a poll error, a missing service, or counts alone.
C20_TerminalLeftOnlyOnContradiction ==
    [][(/\ last_call'.op = "reconcile"
        /\ find_deployment(deployment_history, last_call'.id) # 0
        /\ Before.status \in {"COMPLETED", "FAILED"}
        /\ After.status \in {"IN_PROGRESS", "PENDING", "UNKNOWN"})
       => ExplicitContradiction(last_call'.outcome, Before.status)]_vars

----------------------------------------------------------------------------
(* The refresh bookkeeping of the ledger *)

NonTerminal == {"IN_PROGRESS", "PENDING", "UNKNOWN"}
Terminal == {"COMPLETED", "FAILED"}

\* the record the last reconciliation addressed
LastReconciled ==
    deployment_history[find_deployment(deployment_history, last_call.id)]

\* C21: a record that is IN_PROGRESS, PENDING or UNKNOWN has a next_refresh_at
\* that is not null; next_refresh_at is null only for a record that is COMPLETED
\* or FAILED; and an answered poll that ends in COMPLETED or FAILED clears it.
C21_NonTerminalStaysArmed ==
    /\ \A i \in 1..Len(deployment_history) :
          LET d == deployment_history[i]
          IN /\ d.status \in NonTerminal => d.next_refresh_at # None
             /\ d.next_refresh_at = None => d.status \in Terminal
    /\ (/\ last_call.op = "reconcile"
        /\ last_call.kind = "ok"
        /\ find_deployment(deployment_history, last_call.id) # 0
        /\ LastReconciled.status \in Terminal)
       => LastReconciled.next_refresh_at = None

\* an answered poll has just ended in FAILED and cleared the next refresh of
\* its record, next to a record that is UNKNOWN and armed
C21_Witness ==
    /\ last_call.op = "reconcile"
    /\ last_call.kind = "ok"
    /\ Len(deployment_history) = 2
    /\ find_deployment(deployment_history, last_call.id) = 1
    /\ deployment_history[1].status = "FAILED"
    /\ deployment_history[1].next_refresh_at = None
    /\ deployment_history[2].status = "UNKNOWN"
    /\ deployment_history[2].next_refresh_at # None

\* what a reconciliation decides about a record: its status, its error text and
\* whether it stays armed
Verdict(d) ==
    <<d.status, Get(d, "status_error", ""), d.next_refresh_at = None>>

\* the ledger after the last reconciliation is repeated, with the same poll
\* outcome, at time t
ReconciledAgain(t) ==
    update_deployment_status(deployment_history, last_call.id, last_call.outcome, t)

\* C22: reconciling a record a second time with the same poll outcome (an
\* observation, a missing service or an error), at once or a second later,
\* leaves the status, the status_error and the nullness of next_refresh_at of
\* every record as the first reconciliation left them.
C22_ReconcileIdempotent ==
    last_call.op = "reconcile" =>
        \A t \in {now, now + 1} :
            /\ Len(ReconciledAgain(t)) = Len(deployment_history)
            /\ \A i \in 1..Len(deployment_history) :
                  Verdict(ReconciledAgain(t)[i]) = Verdict(deployment_history[i])

\* a record that was FAILED and cleared has just been reconciled with a missing
\* service: it keeps FAILED, carries the error text and is armed again
C22_Witness ==
    /\ last_call.op = "reconcile"
    /\ last_call.kind = "missing"
    /\ find_deployment(deployment_history, last_call.id) # 0
    /\ Verdict(LastReconciled) = <<"FAILED", "Service not found", FALSE>>
    /\ LastReconciled.last_checked_at = isoformat(now)

----------------------------------------------------------------------------
(* The listing request over records of several clusters and services *)

\* the cluster and service pairs that get deployed
Deployed == {<<"prod", "web">>, <<"prod", "api">>, <<"dev", "web">>}

\* what force_new_deployment hands to save_deployment_history
force_data(cluster, service, t) ==
    [cluster |-> cluster, service |-> service,
     deployment_type |-> "force_new_deployment",
     deployment_id |-> use_case_id(<<>>, cluster, service, t)]

\* the filters and limits of the listing calls; "" is a filter not supplied
ClusterFilters == {"", "prod"}
ListedServices == {"", "web"}
ListLimits == 0..MaxLedger

\* the polls of a listing call: the service reports its rollout COMPLETED, or
\* describe_services raises
ListingPolls ==
    {p \in PollInputs :
        \/ p.fault = "describe_services"
        \/ p.fault = "none" /\ p.obs.rollout = "COMPLETED"}

\* GET /deployment_history with its cluster, service and limit parameters
ListFiltered(cluster, service, limit, fault, obs) ==
    /\ LET out == get_deployment_history(deployment_history, cluster, service, limit,
                                         fault, obs, now)
       IN /\ deployment_history' = out.history
          /\ last_call' = [op |-> "get_deployment_history", cluster |-> cluster,
                           service |-> service, limit |-> limit, fault |-> fault,
                           code |-> out.code, deployments |-> out.deployments]
    /\ UNCHANGED <<now, inserted, ecs_vars, threads, log_session>>

ListingNext ==
    \/ Tick
    \/ \E cs \in Deployed : Record(force_data(cs[1], cs[2], now))
    \/ \E cluster \in ClusterFilters, service \in ListedServices,
          limit \in ListLimits, p \in ListingPolls :
          ListFiltered(cluster, service, limit, p.fault, p.obs)

SpecListing == LedgerInit /\ [][ListingNext]_vars

\* the step just taken was a listing call
Listed == last_call'.op = "get_deployment_history"

\* the positions of the ledger whose record matches every filter the listing
\* call just made supplied
Matching ==
    {i \in 1..Len(deployment_history) :
        /\ last_call'.cluster = "" \/ deployment_history[i].cluster = last_call'.cluster
        /\ last_call'.service = "" \/ deployment_history[i].service = last_call'.service}

\* the k-th matching position, in ledger order
MatchAt(k) == CHOOSE i \in Matching : Cardinality({j \in Matching : j < i}) = k - 1

\* what a record is, apart from what a reconciliation writes
Identity(d) == <<d.deployment_id, d.timestamp, d.cluster, d.service, d.deployment_type>>

\* C24: a listing call returns, in ledger order, exactly the first limit
\* records among those that match every supplied filter, for every limit >= 0,
\* and adds, removes and reorders no record of the ledger.
C24_ListFiltersThenTruncates ==
    [][Listed =>
          /\ Len(last_call'.deployments) = Min(last_call'.limit, Cardinality(Matching))
          /\ \A k \in 1..Len(last_call'.deployments) :
                last_call'.deployments[k] = deployment_history[MatchAt(k)].deployment_id
          /\ Len(deployment_history') = Len(deployment_history)
          /\ \A i \in 1..Len(deployment_history) :
                Identity(deployment_history'[i]) = Identity(deployment_history[i])]_vars

\* a listing with a service filter and limit 1 has just returned the second
\* record of the ledger, the first being of another service
C24_Witness ==
    /\ last_call.op = "get_deployment_history"
    /\ "limit" \in DOMAIN last_call
    /\ last_call.limit = 1
    /\ last_call.service = "web"
    /\ Len(deployment_history) = 2
    /\ deployment_history[1].service = "api"
    /\ last_call.deployments = <<deployment_history[2].deployment_id>>
    /\ deployment_history[2].status = "COMPLETED"

----------------------------------------------------------------------------
(* Listing calls that keep coming *)

\* a listing call without filters whose polls are all answered with the
\* rollout COMPLETED: it covers every service
CoveringListing ==
    \E limit \in ListLimits, p \in ListingPolls :
        /\ p.fault = "none"
        /\ ListFiltered("", "", limit, p.fault, p.obs)

\* clients keep polling the listing: a covering call that would change
\* something is eventually made
SpecConverge == LedgerInit /\ [][ListingNext]_vars /\ WF_vars(CoveringListing)

\* the polls of the last listing call were answered
PollsAnswered ==
    last_call.op = "get_deployment_history" => last_call.fault = "none"

\* no record of the ledger is IN_PROGRESS, PENDING or UNKNOWN
AllCompleted ==
    \A i \in 1..Len(deployment_history) : deployment_history[i].status = "COMPLETED"

\* C29: if listing calls covering a service keep occurring and from some point
\* on every poll is answered with the rollout COMPLETED, every record that
\* stays in the ledger eventually is COMPLETED and none stays IN_PROGRESS,
\* PENDING or UNKNOWN forever.
C29_NonTerminalEventuallyCompleted ==
    (<>[]PollsAnswered) => <>[]AllCompleted

----------------------------------------------------------------------------
(* The listing request and the records it reconciles *)

\* the record passes the service filter of the listing call just made (the
\* calls of the model give no cluster filter)
PassesFilter(d) == last_call'.service = "" \/ d.service = last_call'.service

\* C23: a listing call leaves unchanged the status of every record that is
\* COMPLETED or FAILED when the call starts, and of every record that does not
\* pass the call's filter: it reconciles only non-terminal records that pass.
C23_ListingSparesTerminalAndFiltered ==
    [][Listed =>
          /\ Len(deployment_history') = Len(deployment_history)
          /\ \A i \in 1..Len(deployment_history) :
                (deployment_history[i].status \in Terminal
                    \/ ~PassesFilter(deployment_history[i]))
                => deployment_history'[i].status = deployment_history[i].status]_vars

----------------------------------------------------------------------------
(* Rollback and the revision the service runs *)

\* the service of the record a rollback names
RolledBackService ==
    deployment_history[find_deployment(deployment_history, last_call'.id)].service

\* the revision the service runs when the rollback is invoked
RunningRevision == ecs_services[RolledBackService].taskDefinition

\* C25: a successful rollback points the service at the second most recent
\* revision of its task-definition family, and that revision is the one
\* immediately preceding the revision the service runs when the rollback is
\* invoked, after any sequence of deploys and rollbacks.
C25_RollbackToPrecedingRevision ==
    [][(Handled("rollback_deployment") /\ last_call'.code = 200) =>
          LET family == RunningRevision[1]
              target == ecs_services'[RolledBackService].taskDefinition
          IN /\ target = <<family, Len(ecs_revisions[family]) - 1>>
             /\ target = <<family, RunningRevision[2] - 1>>]_vars

----------------------------------------------------------------------------
(* The revisions the use cases register *)

\* the step just taken registered a revision in the family of the service
RegisteredFor(service) ==
    Len(ecs_revisions'[service]) = Len(ecs_revisions[service]) + 1

\* the revision the service runs before the step, and the one just registered
CurrentRevision(service) ==
    describe_task_definition(ecs_revisions, ecs_services[service].taskDefinition)
NewRevision(service) == ecs_revisions'[service][Len(ecs_revisions'[service])]

\* a container definition apart from its image
WithoutImage(c) == [k \in (DOMAIN c) \ {"image"} |-> c[k]]

\* C26: the revision deploy-new-image registers has every container definition
\* of the current revision, in the same order and with every field other than
\* image unchanged, also when an image reference carries the registry marker
\* but cannot be parsed, or the registry lookup fails.
C26_DeployKeepsEveryContainer ==
    [][(Handled("deploy_new_image") /\ RegisteredFor(last_call'.service)) =>
          LET old == CurrentRevision(last_call'.service).containerDefinitions
              new == NewRevision(last_call'.service).containerDefinitions
          IN /\ Len(new) = Len(old)
             /\ \A i \in 1..Len(old) :
                   i <= Len(new) /\ WithoutImage(new[i]) = WithoutImage(old[i])]_vars

\* the override the request just handled carries for the container, if any
OverridesOf(name) ==
    {k \in 1..Len(last_call'.request.container_updates) :
        last_call'.request.container_updates[k].container_name = name}

\* the entries of an environment or secrets list whose key the override names
Named(entries, override) ==
    {i \in 1..Len(entries) :
        \E k \in 1..Len(override) : override[k].name = entries[i].name}

\* C27: the revision a task-definition update registers carries task-level cpu
\* and memory over unchanged when the request overrides neither, carries every
\* container without an override over verbatim, and in an overridden container
\* keeps the value of every environment variable whose key the override does
\* not name.
C27_UpdateChangesOnlyOverrides ==
    [][(Handled("update_task_definition") /\ RegisteredFor(last_call'.service)) =>
          LET old == CurrentRevision(last_call'.service)
              new == NewRevision(last_call'.service)
          IN /\ \A key \in {"cpu", "memory"} :
                   last_call'.request[key] = "" =>
                       Get(new, key, None) = Get(old, key, None)
             /\ Len(new.containerDefinitions) = Len(old.containerDefinitions)
             /\ \A i \in 1..Len(old.containerDefinitions) :
                   LET c == old.containerDefinitions[i]
                       n == new.containerDefinitions[i]
                   IN IF OverridesOf(c.name) = {} THEN n = c
                      ELSE \A k \in OverridesOf(c.name) :
                              LET override == Get(last_call'.request.container_updates[k],
                                                  "environment_variables", <<>>)
                                  env == Get(c, "environment", <<>>)
                              IN \A e \in 1..Len(env) :
                                    e \notin Named(env, override) =>
                                        \E f \in 1..Len(Get(n, "environment", <<>>)) :
                                            n.environment[f] = env[e]]_vars

----------------------------------------------------------------------------
(* The ids of the records the use cases write *)

\* C28: no two records of the ledger share a deployment id, so that a lookup
\* by the id of any record finds that record, also for two deployments of the
\* same cluster and service started within the same second.
C28_DeploymentIdsUnique ==
    \A i \in 1..Len(deployment_history) :
        /\ \A j \in 1..Len(deployment_history) :
              deployment_history[i].deployment_id = deployment_history[j].deployment_id
                  => i = j
        /\ find_deployment(deployment_history, deployment_history[i].deployment_id) = i

----------------------------------------------------------------------------
(* save_deployment_history in parallel request threads.  Nothing guards the
   list: a thread can be preempted between the insert, the test of the length
   and the pop.  Each action below is one of these statements in one thread. *)

\* what the n-th call hands to save_deployment_history
save_data(n) ==
    [cluster |-> "prod", service |-> "web", deployment_type |-> "force_new_deployment",
     deployment_id |-> <<"save", "-", ToString(n)>>]

\* the ledger after the first k calls, made one after the other, for k up to
\* the capacity: every entry inserted in front of the older ones
Saved(k) == [i \in 1..k |-> history_entry(save_data(k + 1 - i), 0)]

\* the ledger is one short of its capacity, or at it, when the threads start
NearFull == {HISTORY_LIMIT - 1, HISTORY_LIMIT}

SaveInit ==
    /\ \E k \in NearFull :
          /\ deployment_history = Saved(k)
          /\ inserted = [i \in 1..k |-> history_entry(save_data(i), 0)]
    /\ now = 0
    /\ last_call = [op |-> "none"]
    /\ ecs_services = <<>>
    /\ ecs_revisions = <<>>
    /\ ecr_images = <<>>
    /\ threads = [th \in Threads |-> IdleThread]
    /\ log_session = NoLogSession

\* deployment_history.insert(0, history_entry)
Insert(th) ==
    /\ threads[th].pc = "idle"
    /\ Len(inserted) < HISTORY_LIMIT + MaxSaves
    /\ LET entry == history_entry(save_data(Len(inserted) + 1), now)
       IN /\ deployment_history' = inserted_at_head(deployment_history, entry)
          /\ inserted' = Append(inserted, entry)
    /\ threads' = [threads EXCEPT ![th].pc = "inserted"]
    /\ UNCHANGED <<now, last_call, ecs_vars, log_session>>

\* if len(deployment_history) > 100
CheckLength(th) ==
    /\ threads[th].pc = "inserted"
    /\ threads' = [threads EXCEPT ![th].pc =
                      IF over_limit(deployment_history) THEN "pop" ELSE "idle"]
    /\ UNCHANGED <<deployment_history, inserted, now, last_call, ecs_vars, log_session>>

\* deployment_history.pop(), and the return
Pop(th) ==
    /\ threads[th].pc = "pop"
    /\ deployment_history' = popped(deployment_history)
    /\ threads' = [threads EXCEPT ![th].pc = "idle"]
    /\ UNCHANGED <<inserted, now, last_call, ecs_vars, log_session>>

SaveNext ==
    \E th \in Threads : Insert(th) \/ CheckLength(th) \/ Pop(th)

SpecSave == SaveInit /\ [][SaveNext]_vars

\* every call has returned
AllReturned == \A th \in Threads : threads[th].pc = "idle"

\* the position of an entry in the order of insertion
InsertedAt(d) == CHOOSE i \in 1..Len(inserted) : inserted[i].deployment_id = d.deployment_id

\* the positions, in the order of insertion, of the entries the ledger keeps
Kept == {InsertedAt(deployment_history[i]) : i \in 1..Len(deployment_history)}

\* C30: under every interleaving of concurrent save_deployment_history calls,
\* once all calls have returned the ledger holds at most 100 records, and every
\* evicted record was inserted before every record that is kept.
C30_ConcurrentSavesEvictOldest ==
    AllReturned =>
        /\ Len(deployment_history) <= 100
        /\ \A e \in (1..Len(inserted)) \ Kept : \A k \in Kept : e < k

\* two calls that overlapped on a ledger of 99 records have both returned: both
\* found 101 records and both evicted one
C30_Witness ==
    /\ AllReturned
    /\ Len(inserted) = 101
    /\ Len(deployment_history) = 99
    /\ deployment_history[99].deployment_id = <<"save", "-", "3">>

====
